---- MODULE Spec2Model ----
(***************************************************************************)
(* A state-machine model of the FaceTracking React component               *)
(* (src/src/components/FaceTracking.tsx): the detection loop (model        *)
(* loading, camera start, the detection effect, its polling interval and   *)
(* the asynchronous inferences) and the recording session (MediaRecorder,  *)
(* chunk buffer, finalization and export).                                 *)
(*                                                                         *)
(* The browser and React are the environment.  Their behaviour is modelled *)
(* from the platform rules the code relies on:                             *)
(*  - React runs an effect after a commit whose dependencies changed, runs *)
(*    the previous cleanup first, detaches refs on unmount and then runs   *)
(*    the last cleanup;                                                    *)
(*  - a media element fires 'play' each time it goes from paused to        *)
(*    playing (autoplay after srcObject is set, or a later resume);        *)
(*  - MediaRecorder.stop() makes the recorder inactive at once and queues  *)
(*    one task that fires dataavailable (the final flush) and then stop;   *)
(*    the same task is queued when the recorded stream ends.               *)
(* The handlers startVideo, startRecording and stopRecording are modelled  *)
(* as operations that can be invoked whenever the component is rendered;   *)
(* their guards are the conditions of their own code.                      *)
(***************************************************************************)
EXTENDS Integers, Sequences, FiniteSets, TLC

\* ---------------------------------------------------------------- bounds
MaxStreams == 1
MaxGum == 1
MaxPlays == 2
MaxTicks == 2
MaxRecorders == 2
MaxChunks == 3

\* The scope of the whole component (SpecBoth): 'play' events, ticks,
\* recorders and chunks.
BothPlays == 1
BothTicks == 1
BothRecorders == 1
BothChunks == 1

\* The sizes a chunk delivered while recording may have, and those of the
\* final flush (0: an empty Blob).
ChunkSizes == {0, 120}
FlushSizes == {0, 50}

VARIABLES
    isMounted,        \* useState, line 16
    isModelLoaded,    \* useState, line 14
    cameraStarted,    \* useState, line 15
    isRecording,      \* useState, line 13
    refs,             \* videoRef.current / canvasRef.current are non-null
    unmounted,        \* React has unmounted the component
    streamRef,        \* streamRef.current: 0 is null, else a stream id
    mediaRecorderRef, \* mediaRecorderRef.current: 0 is null, else a recorder
    chunksRef,        \* chunksRef.current: the accumulation buffer
    loadState,        \* progress of loadModels
    loadDeps,         \* dependencies the load effect last ran with
    nLoads,           \* calls of loadModels
    detDeps,          \* dependencies the detection effect last ran with
    closures,         \* one entry per guarded run of the detection effect:
                      \* its `interval` variable (0 is undefined)
    cleanupOf,        \* the closure whose cleanup React holds (0: none)
    deactivated,      \* a cleanup of the detection effect has run
    timerOf,          \* timer id -> the closure whose setInterval made it
    activeTimers,     \* the timer ids not cleared
    video,            \* the video element's playback state
    nPlays,           \* 'play' events fired
    gumPending,       \* getUserMedia promises not settled
    nStreams,         \* streams handed out by getUserMedia
    endedStreams,     \* streams whose tracks have ended
    inflight,         \* inferences awaited: [id, cl]
    nTicks,           \* interval callbacks run
    nInfer,           \* inferences issued
    nDraws,           \* clear+draw passes on the overlay canvas
    overlay,          \* id of the inference whose batch the canvas shows
    recorders,        \* MediaRecorder objects created so far
    exports,          \* one entry per run of onstop
    last              \* the step just taken and the error it raised

camVars == <<cameraStarted, streamRef, video, nPlays, gumPending, nStreams,
             endedStreams>>
lifeVars == <<isMounted, refs, unmounted>>
loadVars == <<isModelLoaded, loadState, loadDeps, nLoads>>
detVars == <<detDeps, closures, cleanupOf, deactivated, timerOf,
             activeTimers, inflight, nTicks, nInfer, nDraws, overlay>>
recVars == <<isRecording, mediaRecorderRef, chunksRef, recorders, exports>>
vars == <<isMounted, isModelLoaded, cameraStarted, isRecording, refs,
          unmounted, streamRef, mediaRecorderRef, chunksRef, loadState,
          loadDeps, nLoads, detDeps, closures, cleanupOf, deactivated, timerOf,
          activeTimers, video, nPlays, gumPending, nStreams, endedStreams,
          inflight, nTicks, nInfer, nDraws, overlay, recorders, exports,
          last>>

Step(op, err) == [op |-> op, err |-> err]

\* --------------------------------------------------------- construction
\* The component after its first render: every useState and useRef holds
\* its initial value (lines 7-16), no effect has run yet.
Init ==
    /\ isMounted = FALSE
    /\ isModelLoaded = FALSE
    /\ cameraStarted = FALSE
    /\ isRecording = FALSE
    /\ refs = FALSE
    /\ unmounted = FALSE
    /\ streamRef = 0
    /\ mediaRecorderRef = 0
    /\ chunksRef = <<>>
    /\ loadState = "idle"
    /\ loadDeps = <<>>
    /\ nLoads = 0
    /\ detDeps = <<>>
    /\ closures = <<>>
    /\ cleanupOf = 0
    /\ deactivated = FALSE
    /\ timerOf = <<>>
    /\ activeTimers = {}
    /\ video = "nosrc"
    /\ nPlays = 0
    /\ gumPending = 0
    /\ nStreams = 0
    /\ endedStreams = {}
    /\ inflight = {}
    /\ nTicks = 0
    /\ nInfer = 0
    /\ nDraws = 0
    /\ overlay = 0
    /\ recorders = <<>>
    /\ exports = <<>>
    /\ last = Step("init", "none")

\* ------------------------------------------------------------ lifecycle
\* useEffect(() => setIsMounted(true), []) and the re-render it causes:
\* the video and canvas elements are rendered and the refs attached.
MountEffect ==
    /\ ~isMounted /\ ~unmounted
    /\ isMounted' = TRUE
    /\ refs' = TRUE
    /\ last' = Step("event", "none")
    /\ UNCHANGED <<unmounted, camVars, loadVars, detVars, recVars>>

\* React removes the component: the refs of the removed elements are set
\* to null in the commit; the effect cleanup runs afterwards (RunCleanup).
Unmount ==
    /\ ~unmounted
    /\ unmounted' = TRUE
    /\ refs' = FALSE
    /\ last' = Step("event", "none")
    /\ UNCHANGED <<isMounted, camVars, loadVars, detVars, recVars>>

\* ---------------------------------------------------------- model loading
\* The load effect, lines 22-35: returns at once while isMounted is false,
\* otherwise calls loadModels, which awaits the first loadFromUri.
LoadEffect ==
    /\ ~unmounted
    /\ loadDeps # <<isMounted>>
    /\ loadDeps' = <<isMounted>>
    /\ loadState' = IF isMounted THEN "net1" ELSE loadState
    /\ nLoads' = IF isMounted THEN nLoads + 1 ELSE nLoads
    /\ last' = Step("event", "none")
    /\ UNCHANGED <<isModelLoaded, lifeVars, camVars, detVars, recVars>>

\* tinyFaceDetector.loadFromUri resolved (line 27): the second is awaited.
LoadNet1Done ==
    /\ loadState = "net1"
    /\ loadState' = "net2"
    /\ last' = Step("event", "none")
    /\ UNCHANGED <<isModelLoaded, loadDeps, nLoads, lifeVars, camVars,
                   detVars, recVars>>

\* faceLandmark68Net.loadFromUri resolved (line 28): setIsModelLoaded(true)
\* (line 29); a state update of an unmounted component is dropped by React.
LoadNet2Done ==
    /\ loadState = "net2"
    /\ loadState' = "ready"
    /\ isModelLoaded' = IF unmounted THEN isModelLoaded ELSE TRUE
    /\ last' = Step("event", "none")
    /\ UNCHANGED <<loadDeps, nLoads, lifeVars, camVars, detVars, recVars>>

\* Either loadFromUri rejected: the catch of lines 30-32 logs and returns.
LoadFailed ==
    /\ loadState \in {"net1", "net2"}
    /\ loadState' = "failed"
    /\ last' = Step("event", "none")
    /\ UNCHANGED <<isModelLoaded, loadDeps, nLoads, lifeVars, camVars,
                   detVars, recVars>>

\* ----------------------------------------------------------------- camera
\* startVideo up to its await (line 39): getUserMedia is pending.
StartVideo ==
    /\ refs
    /\ gumPending < MaxGum
    /\ gumPending' = gumPending + 1
    /\ last' = Step("startVideo", "none")
    /\ UNCHANGED <<cameraStarted, streamRef, video, nPlays, nStreams,
                   endedStreams, lifeVars, loadVars, detVars, recVars>>

\* getUserMedia resolved with a new stream (lines 40-44).  Setting
\* srcObject reloads the element, which then autoplays.  With
\* videoRef.current null (after unmount) nothing is stored.
StartVideoGranted ==
    /\ gumPending > 0
    /\ nStreams < MaxStreams
    /\ gumPending' = gumPending - 1
    /\ nStreams' = nStreams + 1
    /\ IF refs
         THEN /\ video' = "loaded"
              /\ streamRef' = nStreams + 1
              /\ cameraStarted' = TRUE
         ELSE UNCHANGED <<video, streamRef, cameraStarted>>
    /\ last' = Step("event", "none")
    /\ UNCHANGED <<nPlays, endedStreams, lifeVars, loadVars, detVars,
                   recVars>>

\* getUserMedia rejected (lines 45-48): console.error and alert.
StartVideoDeniedStartsCamera ==
    /\ gumPending > 0
    /\ gumPending' = gumPending - 1
    /\ cameraStarted' = (cameraStarted \/ refs)
    /\ last' = Step("startVideoDenied", "alert")
    /\ UNCHANGED <<streamRef, video, nPlays, nStreams, endedStreams,
                   lifeVars, loadVars, detVars, recVars>>

StartVideoDenied ==
    /\ gumPending > 0
    /\ gumPending' = gumPending - 1
    /\ last' = Step("startVideoDenied", "alert")
    /\ UNCHANGED <<cameraStarted, streamRef, video, nPlays, nStreams,
                   endedStreams, lifeVars, loadVars, detVars, recVars>>

\* The video element is paused (browser media controls, the element losing
\* its document); the stream itself stays live.
VideoPause ==
    /\ video = "playing"
    /\ video' = "paused"
    /\ last' = Step("event", "none")
    /\ UNCHANGED <<cameraStarted, streamRef, nPlays, gumPending, nStreams,
                   endedStreams, lifeVars, loadVars, detVars, recVars>>

\* --------------------------------------------------------- detection loop
\* The condition of line 90 (both refs are attached by the same render).
EffectGuardNoModel == refs /\ refs /\ cameraStarted

EffectGuard == refs /\ refs /\ isModelLoaded /\ cameraStarted

\* clearInterval of the closure's `interval`, lines 116-120.
CleanupTimers(c) ==
    IF closures[c].interval # 0
      THEN activeTimers \ {closures[c].interval}
      ELSE activeTimers

\* The detection effect, lines 85-122, run by React after a commit in
\* which [isModelLoaded, cameraStarted, isMounted] changed: the previous
\* run's cleanup first, then the body.  A guarded run makes a new closure
\* (its own `interval`, undefined) and adds its setupFaceDetection as a
\* 'play' listener of the video element; the listener is never removed.
RunDetectEffect ==
    /\ ~unmounted
    /\ detDeps # <<isModelLoaded, cameraStarted, isMounted>>
    /\ detDeps' = <<isModelLoaded, cameraStarted, isMounted>>
    /\ activeTimers' =
         IF cleanupOf # 0 THEN CleanupTimers(cleanupOf) ELSE activeTimers
    /\ deactivated' = (deactivated \/ cleanupOf # 0)
    /\ IF isMounted /\ EffectGuard
         THEN /\ closures' = Append(closures, [interval |-> 0])
              /\ cleanupOf' = Len(closures) + 1
         ELSE /\ closures' = closures
              /\ cleanupOf' = 0
    /\ last' = Step("event", "none")
    /\ UNCHANGED <<timerOf, inflight, nTicks, nInfer, nDraws, overlay,
                   lifeVars, loadVars, camVars, recVars>>

\* After the unmount React runs the cleanup it holds, lines 116-120.
RunCleanup ==
    /\ unmounted
    /\ cleanupOf # 0
    /\ activeTimers' = CleanupTimers(cleanupOf)
    /\ cleanupOf' = 0
    /\ deactivated' = TRUE
    /\ last' = Step("event", "none")
    /\ UNCHANGED <<detDeps, closures, timerOf, inflight, nTicks, nInfer,
                   nDraws, overlay, lifeVars, loadVars, camVars, recVars>>

\* The element starts playing and fires 'play': every registered
\* setupFaceDetection runs (lines 91-112).  With the refs attached each
\* one calls setInterval and stores the new id in its closure's
\* `interval`, overwriting the one it held.  With the refs null
\* videoRef.current!.width (line 94) throws before setInterval.
PlayEvent ==
    /\ video \in {"loaded", "paused"}
    /\ nPlays < MaxPlays
    /\ video' = "playing"
    /\ nPlays' = nPlays + 1
    /\ IF closures = <<>>
         THEN /\ UNCHANGED <<closures, timerOf, activeTimers>>
              /\ last' = Step("play", "none")
         ELSE IF refs
           THEN /\ closures' = [c \in 1..Len(closures) |->
                                  [interval |-> Len(timerOf) + c]]
                /\ timerOf' = timerOf \o [c \in 1..Len(closures) |-> c]
                /\ activeTimers' = activeTimers \cup
                      {Len(timerOf) + c : c \in 1..Len(closures)}
                /\ last' = Step("play", "none")
           ELSE /\ UNCHANGED <<closures, timerOf, activeTimers>>
                /\ last' = Step("play", "TypeError")
    /\ UNCHANGED <<cameraStarted, streamRef, gumPending, nStreams,
                   endedStreams, detDeps, cleanupOf, deactivated, inflight,
                   nTicks, nInfer, nDraws, overlay, lifeVars, loadVars,
                   recVars>>

\* One run of the interval callback, lines 100-111, up to its await: with
\* videoRef.current non-null an inference is issued, otherwise the tick
\* does nothing.
Tick(t) ==
    /\ t \in activeTimers
    /\ nTicks < MaxTicks
    /\ nTicks' = nTicks + 1
    /\ IF refs
         THEN /\ inflight' = inflight \cup
                    {[id |-> nInfer + 1, cl |-> timerOf[t]]}
              /\ nInfer' = nInfer + 1
         ELSE UNCHANGED <<inflight, nInfer>>
    /\ last' = Step("event", "none")
    /\ UNCHANGED <<detDeps, closures, cleanupOf, deactivated, timerOf,
                   activeTimers, nDraws, overlay, lifeVars, loadVars,
                   camVars, recVars>>

\* The awaited detection resolved: lines 106-109 run without a further
\* check, on the canvas the closure captured: resize, clearRect,
\* drawDetections, drawFaceLandmarks.  There is no await among them, so
\* no other callback runs in between, and the batch drawn is that of the
\* detection that resolved, whenever it was issued.
InferDoneUnlessOlder(i) ==
    /\ i \in inflight
    /\ inflight' = inflight \ {i}
    /\ nDraws' = nDraws + 1
    /\ overlay' = IF i.id > overlay THEN i.id ELSE overlay
    /\ last' = Step("event", "none")
    /\ UNCHANGED <<detDeps, closures, cleanupOf, deactivated, timerOf,
                   activeTimers, nTicks, nInfer, lifeVars, loadVars,
                   camVars, recVars>>

InferDone(i) ==
    /\ i \in inflight
    /\ inflight' = inflight \ {i}
    /\ nDraws' = nDraws + 1
    /\ overlay' = i.id
    /\ last' = Step("event", "none")
    /\ UNCHANGED <<detDeps, closures, cleanupOf, deactivated, timerOf,
                   activeTimers, nTicks, nInfer, lifeVars, loadVars,
                   camVars, recVars>>

\* The awaited detection rejected: the async callback has no try/catch, so
\* it ends at line 104 with an unhandled rejection; nothing is cleared or
\* drawn.  The interval is not touched: a rejection inside the callback
\* does not reach setInterval.
InferFailedStopsTimer(i) ==
    /\ i \in inflight
    /\ inflight' = inflight \ {i}
    /\ activeTimers' = {}
    /\ last' = Step("inferFailed", "UnhandledRejection")
    /\ UNCHANGED <<detDeps, closures, cleanupOf, deactivated, timerOf,
                   nTicks, nInfer, nDraws, overlay, lifeVars, loadVars,
                   camVars, recVars>>

InferFailed(i) ==
    /\ i \in inflight
    /\ inflight' = inflight \ {i}
    /\ last' = Step("inferFailed", "UnhandledRejection")
    /\ UNCHANGED <<detDeps, closures, cleanupOf, deactivated, timerOf,
                   activeTimers, nTicks, nInfer, nDraws, overlay, lifeVars,
                   loadVars, camVars, recVars>>

LifeNext == MountEffect \/ Unmount

LoadNext == LoadEffect \/ LoadNet1Done \/ LoadNet2Done \/ LoadFailed

CamNext == StartVideo \/ StartVideoGranted \/ StartVideoDenied

DetNext ==
    \/ RunDetectEffect
    \/ RunCleanup
    \/ PlayEvent
    \/ VideoPause
    \/ \E t \in activeTimers : Tick(t)
    \/ \E i \in inflight : InferDone(i)
    \/ \E i \in inflight : InferFailed(i)

\* The detection loop with model loading, the camera and the lifecycle.
NextDet == LifeNext \/ LoadNext \/ CamNext \/ DetNext

SpecDet == Init /\ [][NextDet]_vars

\* -------------------------------------------------------------- recording
\* A chunk (the Blob of a dataavailable event): its recorder, its position
\* in that recorder's output and its size.
Chunk(r, n, size) == [rec |-> r, seq |-> n, size |-> size]

\* A session is live from start() until its stop event has been handled.
Live(rc) == rc.phase \in {"recording", "flushing"}

\* mediaRecorder.ondataavailable, lines 58-62, on the buffer chunksRef.current.
OnDataAvailableNoSizeCheck(buf, data) == Append(buf, data)

OnDataAvailableWhileRecording(buf, data) ==
    IF data.size > 0 /\ recorders[data.rec].phase = "recording"
      THEN Append(buf, data)
      ELSE buf

OnDataAvailable(buf, data) ==
    IF data.size > 0 THEN Append(buf, data) ELSE buf

\* mediaRecorder.onstop, lines 64-72: the Blob of the buffer as it is now,
\* an object URL for it, the anchor click, revokeObjectURL.  A click that
\* throws ends the handler at line 70, before line 71.
OnStopClickTwice(buf, r, clickThrows) ==
    <<[rec |-> r, blob |-> buf, url |-> TRUE, clicked |-> ~clickThrows,
       revoked |-> ~clickThrows],
      [rec |-> r, blob |-> buf, url |-> TRUE, clicked |-> ~clickThrows,
       revoked |-> ~clickThrows]>>

OnStopEmptyBlob(buf, r, clickThrows) ==
    <<[rec |-> r, blob |-> <<>>, url |-> TRUE, clicked |-> ~clickThrows,
       revoked |-> ~clickThrows]>>

OnStop(buf, r, clickThrows) ==
    <<[rec |-> r, blob |-> buf, url |-> TRUE, clicked |-> ~clickThrows,
       revoked |-> ~clickThrows]>>

\* The condition of line 79.
StopGuardNoStateCheck == mediaRecorderRef # 0

StopGuard ==
    /\ mediaRecorderRef # 0
    /\ recorders[mediaRecorderRef].phase = "recording"

\* MediaRecorder.stop(), called at line 80: a recorder that is not inactive
\* becomes inactive at once and the final task is queued; on an inactive
\* recorder the call does nothing.
RecorderStop(r) ==
    IF recorders[r].phase = "recording"
      THEN [recorders EXCEPT ![r].phase = "flushing", ![r].stopped = TRUE]
      ELSE recorders

\* The condition of line 52, !streamRef.current.
NoStreamUnchecked == FALSE

NoStream == streamRef = 0

\* startRecording, lines 51-76.  Without a stream it returns at line 52.
\* Otherwise a new recorder replaces mediaRecorderRef.current, the buffer
\* is replaced by an empty one, and start() is called; start() on a stream
\* whose tracks have ended throws NotSupportedError, so line 75 is not
\* reached.  Of a recorder, `log` keeps every chunk it delivered, `stopped`
\* that stopRecording called its stop(), and `over` that another session
\* was started while it was live (or it while another was).
StartRecording ==
    /\ refs
    /\ IF NoStream
         THEN /\ UNCHANGED recVars
              /\ last' = Step("startRecording", "none")
         ELSE /\ Len(recorders) < MaxRecorders
              /\ LET anyLive == \E q \in 1..Len(recorders) : Live(recorders[q])
                     ended == streamRef \in endedStreams
                     marked == [q \in 1..Len(recorders) |->
                                  IF Live(recorders[q])
                                    THEN [recorders[q] EXCEPT !.over = TRUE]
                                    ELSE recorders[q]]
                 IN  /\ recorders' = Append(marked,
                          [stream |-> streamRef,
                           phase |-> IF ended THEN "new" ELSE "recording",
                           log |-> <<>>,
                           stopped |-> FALSE,
                           over |-> anyLive])
                     /\ mediaRecorderRef' = Len(recorders) + 1
                     /\ chunksRef' = <<>>
                     /\ isRecording' = IF ended THEN isRecording ELSE TRUE
                     /\ last' = Step("startRecording",
                                IF ended THEN "NotSupportedError" ELSE "none")
              /\ UNCHANGED exports
    /\ UNCHANGED <<lifeVars, loadVars, camVars, detVars>>

\* stopRecording, lines 78-83.  It stops the recorder, not the tracks of
\* the stream.
StopRecordingStopsTracks ==
    /\ refs
    /\ IF StopGuard
         THEN /\ recorders' = RecorderStop(mediaRecorderRef)
              /\ isRecording' = FALSE
              /\ endedStreams' = endedStreams \cup {streamRef}
         ELSE UNCHANGED <<recorders, isRecording, endedStreams>>
    /\ last' = Step("stopRecording", "none")
    /\ UNCHANGED <<mediaRecorderRef, chunksRef, exports, cameraStarted,
                   streamRef, video, nPlays, gumPending, nStreams, lifeVars,
                   loadVars, detVars>>

StopRecording ==
    /\ refs
    /\ IF StopGuard
         THEN /\ recorders' = RecorderStop(mediaRecorderRef)
              /\ isRecording' = FALSE
         ELSE UNCHANGED <<recorders, isRecording>>
    /\ last' = Step("stopRecording", "none")
    /\ UNCHANGED <<mediaRecorderRef, chunksRef, exports, lifeVars, loadVars,
                   camVars, detVars>>

\* The chunks delivered so far, the final flushes apart.
RECURSIVE Emitted(_)
Emitted(rs) ==
    IF rs = <<>> THEN 0
    ELSE Len(Head(rs).log) - (IF Head(rs).phase = "done" THEN 1 ELSE 0)
         + Emitted(Tail(rs))

\* A recording recorder fires dataavailable with a chunk of any size.
DataAvailable(r, size) ==
    /\ r \in 1..Len(recorders)
    /\ recorders[r].phase = "recording"
    /\ Emitted(recorders) < MaxChunks
    /\ LET data == Chunk(r, Len(recorders[r].log) + 1, size)
       IN  /\ chunksRef' = OnDataAvailable(chunksRef, data)
           /\ recorders' = [recorders EXCEPT ![r].log = Append(@, data)]
    /\ last' = Step("event", "none")
    /\ UNCHANGED <<isRecording, mediaRecorderRef, exports, lifeVars,
                   loadVars, camVars, detVars>>

\* The task queued when a recorder was inactivated: dataavailable with the
\* data gathered since the last chunk (possibly empty), then stop.
StopTask(r, size, clickThrows) ==
    /\ r \in 1..Len(recorders)
    /\ recorders[r].phase = "flushing"
    /\ LET data == Chunk(r, Len(recorders[r].log) + 1, size)
           buf == OnDataAvailable(chunksRef, data)
       IN  /\ chunksRef' = buf
           /\ exports' = exports \o OnStop(buf, r, clickThrows)
           /\ recorders' = [recorders EXCEPT ![r].log = Append(@, data),
                                             ![r].phase = "done"]
    /\ last' = Step("stopTask", IF clickThrows THEN "ClickError" ELSE "none")
    /\ UNCHANGED <<isRecording, mediaRecorderRef, lifeVars, loadVars,
                   camVars, detVars>>

\* The tracks of a stream end (the camera is unplugged, the permission
\* revoked): a video element showing it stops playing, and every recorder
\* recording it is inactivated and its final task queued.
StreamEnds(s) ==
    /\ s \in 1..nStreams
    /\ s \notin endedStreams
    /\ endedStreams' = endedStreams \cup {s}
    /\ video' = IF streamRef = s THEN "ended" ELSE video
    /\ recorders' = [q \in 1..Len(recorders) |->
                       IF recorders[q].stream = s
                            /\ recorders[q].phase = "recording"
                         THEN [recorders[q] EXCEPT !.phase = "flushing"]
                         ELSE recorders[q]]
    /\ last' = Step("event", "none")
    /\ UNCHANGED <<cameraStarted, streamRef, nPlays, gumPending, nStreams,
                   isRecording, mediaRecorderRef, chunksRef, exports,
                   lifeVars, loadVars, detVars>>

RecNext ==
    \/ StartRecording
    \/ StopRecording
    \/ \E r \in 1..MaxRecorders, size \in ChunkSizes : DataAvailable(r, size)
    \/ \E r \in 1..MaxRecorders, size \in FlushSizes, clickThrows \in BOOLEAN :
          StopTask(r, size, clickThrows)
    \/ \E s \in 1..MaxStreams : StreamEnds(s)

\* The recording session with the camera and the component's lifecycle.
NextRec == LifeNext \/ CamNext \/ RecNext

SpecRec == Init /\ [][NextRec]_vars

\* The whole component.  The detection loop and the recording session share
\* only the lifecycle and the camera state, so the properties of each are
\* checked under its own specification (SpecDet, SpecRec), and those that
\* relate the two under SpecBoth.
Next == NextDet \/ NextRec

Spec == Init /\ [][Next]_vars

\* The whole component within a scope small enough to explore: every
\* action of Next, with up to BothPlays 'play' events, BothTicks ticks,
\* BothRecorders recorders and BothChunks chunks before the final flushes.
NextBoth ==
    \/ LifeNext
    \/ LoadNext
    \/ CamNext
    \/ RunDetectEffect
    \/ RunCleanup
    \/ VideoPause
    \/ nPlays < BothPlays /\ PlayEvent
    \/ nTicks < BothTicks /\ \E t \in activeTimers : Tick(t)
    \/ \E i \in inflight : InferDone(i)
    \/ \E i \in inflight : InferFailed(i)
    \/ Len(recorders) < BothRecorders /\ StartRecording
    \/ StopRecording
    \/ Emitted(recorders) < BothChunks
         /\ \E r \in 1..BothRecorders, size \in ChunkSizes :
               DataAvailable(r, size)
    \/ \E r \in 1..BothRecorders, size \in FlushSizes,
          clickThrows \in BOOLEAN : StopTask(r, size, clickThrows)
    \/ \E s \in 1..MaxStreams : StreamEnds(s)

SpecBoth == Init /\ [][NextBoth]_vars

\* The detection loop under the scheduling the platform guarantees: React
\* runs a pending effect or cleanup, a pending promise (model loading,
\* getUserMedia) settles, a loaded autoplay element starts playing, an
\* active interval fires, an awaited inference settles.  A resume of a
\* paused element is the user's and is not guaranteed.
FairDet ==
    /\ SpecDet
    /\ WF_vars(MountEffect)
    /\ WF_vars(LoadNext)
    /\ WF_vars(StartVideoGranted \/ StartVideoDenied)
    /\ WF_vars(RunDetectEffect)
    /\ WF_vars(RunCleanup)
    /\ WF_vars(video = "loaded" /\ PlayEvent)
    /\ WF_vars(\E t \in activeTimers : Tick(t))
    /\ WF_vars(\E i \in inflight : InferDone(i) \/ InferFailed(i))

\* ------------------------------------------------------------------ claims

\* C1: no overlay clear/draw happens after the detection loop has been
\* deactivated (its effect cleanup has run): the completion of an inference
\* issued before the deactivation draws nothing.
C1_NoDrawAfterDeactivation == [][deactivated => nDraws' = nDraws]_vars

\* C2: once the models are loaded, the camera is started and the video is
\* playing, an overlay draw attempt eventually occurs, whatever the order of
\* 'models loaded', 'camera started' and 'play' (unless the component is
\* unmounted, the video stops playing or an inference fails meanwhile).
C2_ActivationLiveness ==
    (isModelLoaded /\ cameraStarted /\ video = "playing" /\ ~unmounted)
      ~> (nDraws > 0 \/ unmounted \/ video # "playing"
            \/ last.op = "inferFailed")

\* C3: a tick, an inference or an overlay draw occurs, and a polling timer
\* exists, only if the models are ready and the camera has been started;
\* while model loading has not completed (or has failed) no timer is created
\* and nothing is drawn; loadModels is called at most once (no retry).
C3_ActivationSafety ==
    /\ (nTicks > 0 \/ nInfer > 0 \/ nDraws > 0 \/ inflight # {}
          \/ timerOf # <<>>)
         => (isModelLoaded /\ cameraStarted)
    /\ loadState # "ready" => (timerOf = <<>> /\ nDraws = 0)
    /\ loadState = "failed" => ~isModelLoaded
    /\ nLoads <= 1

\* C3 witness: the loop has run, a batch has been drawn.
C3_Witness == nDraws > 0 /\ isModelLoaded /\ cameraStarted

\* C4: after the detection loop has been deactivated no interval callback
\* runs any more and no polling timer is created (a 'play' event after the
\* deactivation starts none).
C4_NoTickAfterDeactivation ==
    [][deactivated => (nTicks' = nTicks /\ timerOf' = timerOf)]_vars

\* The non-empty chunks of a sequence, in order.
NonZero(cs) == SelectSeq(cs, LAMBDA c : c.size > 0)

RECURSIVE BlobSize(_)
BlobSize(cs) == IF cs = <<>> THEN 0 ELSE Head(cs).size + BlobSize(Tail(cs))

LastOf(q) == q[Len(q)]

ExportsOf(r) == {e \in 1..Len(exports) : exports[e].rec = r}

SizesOf(cs) == [i \in 1..Len(cs) |-> cs[i].size]

\* C5: the buffer never holds a zero-size chunk, and the blob built when a
\* session is finalized is exactly the non-zero chunks delivered to that
\* session, in delivery order (for a session during which no other session
\* was started or live).
C5_ArtifactContent ==
    /\ \A i \in 1..Len(chunksRef) : chunksRef[i].size > 0
    /\ \A e \in 1..Len(exports) :
         /\ \A i \in 1..Len(exports[e].blob) : exports[e].blob[i].size > 0
         /\ ~recorders[exports[e].rec].over
              => exports[e].blob = NonZero(recorders[exports[e].rec].log)

\* C5 witness: a session fed chunks of sizes 0, 120, 0, 50 has been
\* finalized; its blob holds two chunks.
C5_Witness ==
    \E e \in 1..Len(exports) :
        /\ ~recorders[exports[e].rec].over
        /\ SizesOf(recorders[exports[e].rec].log) = <<0, 120, 0, 50>>
        /\ SizesOf(exports[e].blob) = <<120, 50>>

\* C6: every recorder has exactly one artifact and one download trigger
\* once its stop event has been handled and none before, however often
\* stopRecording is called; a session fed three non-zero chunks before the
\* stop (and an empty final flush) yields an artifact whose size is the sum
\* of the three sizes.
C6_ExactlyOnce ==
    /\ \A r \in 1..Len(recorders) :
         Cardinality(ExportsOf(r)) =
            (IF recorders[r].phase = "done" THEN 1 ELSE 0)
    /\ \A e \in 1..Len(exports) :
         LET rc == recorders[exports[e].rec]
         IN  (~rc.over /\ Len(rc.log) = 4 /\ rc.log[4].size = 0
                /\ \A i \in 1..3 : rc.log[i].size > 0)
               => BlobSize(exports[e].blob)
                    = rc.log[1].size + rc.log[2].size + rc.log[3].size

\* C6 witness: a session that got three non-zero chunks was stopped and
\* finalized, and stopRecording has just been called again.
C6_Witness ==
    /\ last.op = "stopRecording"
    /\ \E r \in 1..Len(recorders) :
         /\ recorders[r].phase = "done" /\ recorders[r].stopped
         /\ mediaRecorderRef = r
         /\ SizesOf(recorders[r].log) = <<120, 120, 120, 0>>
         /\ Cardinality(ExportsOf(r)) = 1

\* The chunks of recorder r that a step adds to the buffer.
AddedOf(r) ==
    {c \in {chunksRef'[i] : i \in 1..Len(chunksRef')} :
        c.rec = r /\ c \notin {chunksRef[i] : i \in 1..Len(chunksRef)}}

C8_DoubleStartNoOp ==
    [][(last'.op = "startRecording" /\ mediaRecorderRef # 0
          /\ recorders[mediaRecorderRef].phase = "recording")
        => UNCHANGED <<mediaRecorderRef, chunksRef, recorders>>]_vars

\* C9: stopRecording called with no recorder, or with a current recorder
\* that is not recording, raises nothing and leaves the recorder, the
\* buffer, isRecording and the exports unchanged.
C9_StopOutsideRecordingNoOp ==
    [][(last'.op = "stopRecording"
          /\ (mediaRecorderRef = 0
                \/ recorders[mediaRecorderRef].phase # "recording"))
        => (last'.err = "none"
              /\ UNCHANGED <<mediaRecorderRef, recorders, chunksRef,
                             isRecording, exports>>)]_vars

\* C9 witness: stopRecording has just been called on a recorder that had
\* stopped by itself, with isRecording still set.
C9_Witness ==
    /\ last.op = "stopRecording"
    /\ mediaRecorderRef # 0
    /\ recorders[mediaRecorderRef].phase = "done"
    /\ ~recorders[mediaRecorderRef].stopped
    /\ isRecording

\* C10: every object URL created for an artifact has been revoked when the
\* export step has ended, also when the anchor click threw.
C10_UrlRevoked ==
    \A e \in 1..Len(exports) : exports[e].url => exports[e].revoked

\* C11: when the inference of a tick fails, the tick is handled as an empty
\* batch: the overlay is cleared (no earlier drawing stays visible) and no
\* error leaves the tick.
C11_FailedInferenceClears ==
    [][last'.op = "inferFailed" =>
         (overlay' = 0 /\ last'.err = "none")]_vars

\* C12: a failed inference leaves the polling timer, the closures and the
\* pending cleanup as they were, every tick of a rendered component issues
\* an inference and every resolved inference is drawn; after a failure,
\* while the loop is not deactivated, a further inference is issued.
C12_LoopSurvivesFailure ==
    /\ [][/\ last'.op = "inferFailed" =>
               UNCHANGED <<activeTimers, timerOf, closures, cleanupOf,
                           deactivated>>
          /\ (nTicks' = nTicks + 1 /\ refs) => nInfer' = nInfer + 1
          /\ (inflight' # inflight /\ nInfer' = nInfer
                 /\ last'.op # "inferFailed") => nDraws' = nDraws + 1]_vars
    /\ \A k \in 1..(MaxTicks - 1) :
          (last.op = "inferFailed" /\ nInfer = k /\ nTicks < MaxTicks
             /\ ~deactivated /\ ~unmounted)
            ~> (nInfer > k \/ deactivated \/ unmounted)

\* C12 witness: an inference has just failed, and the timer that issued it
\* is still active on the rendered, not deactivated component.
C12_Witness ==
    /\ last.op = "inferFailed"
    /\ activeTimers # {}
    /\ ~deactivated /\ refs
    /\ nTicks < MaxTicks

\* C13: when the stream of a recording session ends, the session goes on
\* to its finalization with the buffer untouched and without an error; the
\* finalization exports one artifact that starts with every chunk the
\* buffer held, is the buffer after the final flush, and (for a session no
\* other session overlapped) holds every non-zero chunk of the session; it
\* raises nothing unless the anchor click itself throws.
C13_StreamLossFinalizes ==
    [][\A r \in 1..Len(recorders) :
          /\ (recorders[r].phase = "recording"
                 /\ recorders[r].stream \in endedStreams' \ endedStreams) =>
               /\ recorders'[r].phase = "flushing"
               /\ chunksRef' = chunksRef
               /\ exports' = exports
               /\ last'.err = "none"
          /\ (~recorders[r].stopped /\ recorders[r].phase = "flushing"
                 /\ recorders'[r].phase = "done") =>
               /\ Len(exports') = Len(exports) + 1
               /\ LastOf(exports').rec = r
               /\ Len(LastOf(exports').blob) >= Len(chunksRef)
               /\ SubSeq(LastOf(exports').blob, 1, Len(chunksRef)) = chunksRef
               /\ LastOf(exports').blob = chunksRef'
               /\ ~recorders[r].over =>
                    LastOf(exports').blob = NonZero(recorders'[r].log)
               /\ LastOf(exports').clicked => last'.err = "none"]_vars

\* C13 witness: a session whose stream ended while it was recording (no
\* stopRecording) has been finalized; its artifact holds the chunk that was
\* buffered before the end and the final flush.
C13_Witness ==
    \E e \in 1..Len(exports) :
        LET rc == recorders[exports[e].rec]
        IN  /\ ~rc.stopped /\ rc.phase = "done" /\ ~rc.over
            /\ rc.stream \in endedStreams
            /\ SizesOf(rc.log) = <<120, 50>>
            /\ exports[e].blob = rc.log
            /\ exports[e].clicked

\* C14: a rejected getUserMedia alerts the user and changes neither the
\* stream reference, cameraStarted, the detection loop nor the recording
\* state; while the stream reference is null, cameraStarted is false, no
\* closure, timer, tick, inference or draw exists and no recorder exists
\* (isRecording false, buffer empty); after a denial startVideo can be
\* called again, its getUserMedia can be granted, and a grant on the
\* rendered component sets the stream reference and cameraStarted.
C14_DenialInertRecoverable ==
    /\ [](streamRef = 0 =>
            /\ ~cameraStarted
            /\ closures = <<>> /\ timerOf = <<>> /\ activeTimers = {}
            /\ nTicks = 0 /\ nInfer = 0 /\ nDraws = 0
            /\ recorders = <<>> /\ mediaRecorderRef = 0
            /\ ~isRecording /\ chunksRef = <<>>)
    /\ []((last.op = "startVideoDenied" /\ refs) => ENABLED StartVideo)
    /\ []((refs /\ streamRef = 0 /\ gumPending > 0)
            => ENABLED StartVideoGranted)
    /\ [][/\ last'.op = "startVideoDenied" =>
               /\ last'.err = "alert"
               /\ UNCHANGED <<streamRef, cameraStarted, detVars, recVars>>
          /\ (gumPending' < gumPending /\ last'.op # "startVideoDenied"
                 /\ refs) => (cameraStarted' /\ streamRef' # 0)]_vars

\* C14 witness: getUserMedia has just been rejected on the rendered
\* component whose models are loaded and whose detection effect has run:
\* there is no stream and no closure.
C14_Witness ==
    /\ last.op = "startVideoDenied" /\ last.err = "alert"
    /\ refs /\ streamRef = 0 /\ ~cameraStarted
    /\ isModelLoaded /\ detDeps = <<TRUE, FALSE, TRUE>>
    /\ closures = <<>>

\* C15: a recorder exists, the recorder reference is set or isRecording is
\* true only if the stream reference is non-null; startRecording called
\* with a null stream reference creates no recorder and leaves the recorder
\* reference, the buffer and isRecording unchanged.
C15_RecordingRequiresStream ==
    /\ []((recorders # <<>> \/ mediaRecorderRef # 0 \/ isRecording)
            => streamRef # 0)
    /\ [][(last'.op = "startRecording" /\ streamRef = 0) =>
             (last'.err = "none"
               /\ UNCHANGED <<recorders, mediaRecorderRef, chunksRef,
                              isRecording, exports>>)]_vars

\* C15 witness: startRecording has just been called on the rendered
\* component before any stream was acquired.
C15_Witness ==
    /\ last.op = "startRecording"
    /\ refs /\ streamRef = 0
    /\ recorders = <<>> /\ ~isRecording

\* A step of the recording session: one of its handlers ran
\* (startRecording, stopRecording, the stop task) or a chunk was delivered.
RecStep ==
    \/ last'.op \in {"startRecording", "stopRecording", "stopTask"}
    \/ recVars' # recVars /\ endedStreams' = endedStreams

\* A step of the detection loop: the effect or its cleanup ran, the 'play'
\* listener ran, a tick fired, an inference completed or failed.
DetStep ==
    \/ detVars' # detVars
    \/ last'.op \in {"play", "inferFailed"}

\* C16: a step of the recording session leaves the detection loop's state
\* (closures, timers, inferences in flight, counters, overlay) unchanged,
\* a step of the detection loop leaves the recorders, the recorder
\* reference, the buffer, isRecording and the exports unchanged, and
\* neither changes the stream reference or ends a stream.
C16_Decoupled ==
    [][/\ RecStep => UNCHANGED <<detVars, streamRef, endedStreams>>
       /\ DetStep => UNCHANGED <<recVars, streamRef, endedStreams>>]_vars

\* C16 witness: a session is recording with a chunk buffered while the
\* loop is active and has drawn a batch.
C16_Witness ==
    /\ isRecording /\ mediaRecorderRef # 0
    /\ recorders[mediaRecorderRef].phase = "recording"
    /\ chunksRef # <<>>
    /\ activeTimers # {} /\ ~deactivated
    /\ nDraws > 0 /\ overlay # 0

\* C17: an active timer fires whether or not inferences are in flight;
\* the overlay changes only in the step in which an inference resolves,
\* which is one clear-and-draw pass and leaves on the overlay exactly the
\* batch of that inference, also when it resolves after one issued later;
\* the overlay is empty or shows the batch of one resolved inference.
C17_OverlayOneBatch ==
    /\ []((activeTimers # {} /\ nTicks < MaxTicks)
            => ENABLED (\E t \in activeTimers : Tick(t)))
    /\ [](/\ overlay = 0 <=> nDraws = 0
          /\ overlay # 0 =>
               (overlay \in 1..nInfer
                  /\ \A i \in inflight : i.id # overlay))
    /\ [][/\ overlay' # overlay => nDraws' = nDraws + 1
          /\ nDraws' # nDraws =>
               /\ nDraws' = nDraws + 1
               /\ \E i \in inflight :
                     inflight' = inflight \ {i} /\ overlay' = i.id]_vars

\* C17 witness: two ticks fired, the second while the first inference was
\* in flight; the second inference resolved first, then the first, whose
\* batch the overlay shows.
C17_Witness ==
    /\ nTicks = 2 /\ nInfer = 2 /\ nDraws = 2
    /\ inflight = {}
    /\ overlay = 1

\* Every recorder but the newest was stopped by stopRecording: it was the
\* current recorder and recording then, so no session was ever started
\* while another was recording.
AllStopped == \A p \in 1..(Len(recorders) - 1) : recorders[p].stopped

\* C18: over start/stop cycles (each session stopped by stopRecording
\* before the next is started) every artifact holds chunks of its own
\* recorder only and all its non-zero chunks, and the buffer holds chunks
\* of the current recorder only, also when the next session is started
\* before the stop event of the previous recorder has been handled.
C18_SessionIsolation ==
    AllStopped =>
      /\ \A e \in 1..Len(exports) :
           /\ \A i \in 1..Len(exports[e].blob) :
                 exports[e].blob[i].rec = exports[e].rec
           /\ exports[e].blob = NonZero(recorders[exports[e].rec].log)
      /\ \A i \in 1..Len(chunksRef) : chunksRef[i].rec = mediaRecorderRef

\* C19: isRecording agrees with the current recorder: it is false while
\* there is no recorder, true while the current recorder is recording, and
\* false once the current recorder has ended (its stop event handled),
\* also when it ended because its stream ended.
C19_FlagConsistent ==
    /\ mediaRecorderRef = 0 => ~isRecording
    /\ mediaRecorderRef # 0 =>
         /\ recorders[mediaRecorderRef].phase = "recording" => isRecording
         /\ recorders[mediaRecorderRef].phase = "done" => ~isRecording

\* C20: at most one polling interval is active, and once the cleanup has
\* run none is, however often 'play' has fired.
C20_SingleTimer ==
    /\ Cardinality(activeTimers) <= 1
    /\ (deactivated /\ cleanupOf = 0) => activeTimers = {}

====
